---- MODULE Spec2Model ----
(***************************************************************************)
(* Model of forecast_rainfall_app.py, the rainfall dashboard script.        *)
(*                                                                         *)
(* A data frame is a sequence of row records.  A value that pandas may     *)
(* leave missing (NaN) or that Python may set to None is an optional:      *)
(* <<>> when missing, <<v>> when present.  Rainfall values are naturals.   *)
(***************************************************************************)
EXTENDS Integers, Sequences, FiniteSets, TLC

\* ------------------------------------------------------------------ bounds
MaxCsvRows == 3      \* rows of a forecast table handed to load_data alone
MaxFeatures == 3     \* features of a boundary file handed to load_geojson alone
MaxExtraRows == 2    \* free rows of a dashboard forecast table (after the year block)

\* ------------------------------------------------------------------ names
JKRaw == "Jammu And Kashmir"
JK == "Jammu and Kashmir"
merged_ut == "The Dadra And Nagar Haveli And Daman And Diu"
Dadra == "Dadra and Nagar Haveli"
Daman == "Daman and Diu"
Ladakh == "Ladakh"
Kerala == "Kerala"
Andaman == "Andaman and Nicobar Islands"
Lakshadweep == "Lakshadweep"

\* Python's order of the region names used here (sorted() compares code points).
StateOrder ==
  << Andaman, Dadra, Daman, JKRaw, JK, Kerala, Ladakh, Lakshadweep, merged_ut >>

Rank(s) == CHOOSE i \in 1..Len(StateOrder) : StateOrder[i] = s

month_order ==
  << "Jan", "Feb", "Mar", "Apr", "May", "Jun",
     "Jul", "Aug", "Sep", "Oct", "Nov", "Dec" >>

\* date.dt.strftime("%b")
strftime_b(d) == month_order[d.month]

None == << >>
Some(v) == << v >>

\* ------------------------------------------------------------------ helpers
RECURSIVE SumRain(_)
\* Series.sum() of the predicted_rainfall column
SumRain(rows) ==
  IF rows = << >> THEN 0
  ELSE Head(rows).predicted_rainfall + SumRain(Tail(rows))

Range(s) == { s[i] : i \in 1..Len(s) }

RECURSIVE SortedStates(_)
\* sorted(...) of a set of region names
SortedStates(S) ==
  IF S = {} THEN << >>
  ELSE LET m == CHOOSE x \in S : \A y \in S : Rank(x) <= Rank(y)
       IN << m >> \o SortedStates(S \ {m})

RECURSIVE SortedYears(_)
\* sorted(...) of a set of years
SortedYears(S) ==
  IF S = {} THEN << >>
  ELSE LET m == CHOOSE x \in S : \A y \in S : x <= y
       IN << m >> \o SortedYears(S \ {m})

\* ------------------------------------------------------------------ load_data
\* lines 10-13: the derived columns
WithDerived(raw) ==
  [ i \in 1..Len(raw) |->
      [ state_name |-> raw[i].state_name,
        date |-> raw[i].date,
        predicted_rainfall |-> raw[i].predicted_rainfall,
        year |-> raw[i].date.year,
        month |-> raw[i].date.month,
        month_name |-> strftime_b(raw[i].date) ] ]

\* line 16: df["state_name"].replace({...})
Standardize(d) ==
  [ i \in 1..Len(d) |->
      IF d[i].state_name = JKRaw THEN [ d[i] EXCEPT !.state_name = JK ] ELSE d[i] ]

\* ut_rows.copy() with the state_name column overwritten
Renamed(rows, name) ==
  [ i \in 1..Len(rows) |-> [ rows[i] EXCEPT !.state_name = name ] ]

\* a faulty split: the Daman and Diu copies are forgotten
SplitOnlyDadra(d) ==
  LET ut_rows == SelectSeq(d, LAMBDA r : r.state_name = merged_ut)
      rest == SelectSeq(d, LAMBDA r : r.state_name # merged_ut)
  IN rest \o Renamed(ut_rows, Dadra)

\* a faulty split: the merged rows are not removed
SplitKeepsMerged(d) ==
  LET ut_rows == SelectSeq(d, LAMBDA r : r.state_name = merged_ut)
  IN d \o Renamed(ut_rows, Dadra) \o Renamed(ut_rows, Daman)

\* lines 19-24: split the merged UT into two rows
SplitMergedUT(d) ==
  LET ut_rows == SelectSeq(d, LAMBDA r : r.state_name = merged_ut)
      ut_rows_dadra == Renamed(ut_rows, Dadra)
      ut_rows_daman == Renamed(ut_rows, Daman)
      rest == SelectSeq(d, LAMBDA r : r.state_name # merged_ut)
  IN rest \o ut_rows_dadra \o ut_rows_daman

load_data(raw) == SplitMergedUT(Standardize(WithDerived(raw)))

\* ------------------------------------------------------------------ load_geojson
ExcludedStates == { Andaman, Lakshadweep }

\* a faulty filter: Lakshadweep is not in the exclusion list
FilterOnlyAndaman(features) ==
  SelectSeq(features, LAMBDA feat : feat.st_nm # Andaman)

\* lines 34-37
load_geojson(features) ==
  SelectSeq(features, LAMBDA feat : feat.st_nm \notin ExcludedStates)

\* ------------------------------------------------------------------ state
VARIABLES
  csv,            \* forecast_results.csv: rows [state_name, date, predicted_rainfall]
  geofile,        \* india_states.geojson: features [st_nm, geometry]
  pc,             \* "start" before the first run of the script, then "ran"
  df,             \* load_data()'s cached result
  geojson,        \* load_geojson()'s cached result (the feature list)
  selected_year,  \* st.radio's value (0 before the first run)
  selected_state, \* st.selectbox's value ("" before the first run)
  df_year,        \* the map table, rows [state_name, predicted_rainfall (optional)]
  row,            \* the selected row of monthly_pivot (empty or one row)
  data,           \* the monthly table, rows [Month, Rainfall] (<<>> when never assigned)
  yoy,            \* the year-over-year values (<<>> when the script did not get there)
  yearly_state,   \* the multi-year table, rows [year, predicted_rainfall]
  err,            \* "none", or the exception that ended the run
  memo            \* history: one earlier run's selection and outputs (<<>> when none)

vars ==
  << csv, geofile, pc, df, geojson, selected_year, selected_state, df_year,
     row, data, yoy, yearly_state, err, memo >>

\* ------------------------------------------------------------------ selections
\* line 51: sorted(df['year'].unique())
year_options(d) == SortedYears({ d[i].year : i \in 1..Len(d) })

\* faulty options: Ladakh is offered whatever the records hold
OffersBoundaryStates(d) ==
  SortedStates({ d[i].state_name : i \in 1..Len(d) } \cup { Ladakh })

\* line 54: sorted(df['state_name'].unique())
selectable_states(d) == SortedStates({ d[i].state_name : i \in 1..Len(d) })

\* ------------------------------------------------------------------ map table
\* line 61
geo_states(g) == [ i \in 1..Len(g) |-> g[i].st_nm ]

\* groupby('state_name', as_index=False)['predicted_rainfall'].sum()
GroupByStateSum(d) ==
  LET keys == SortedStates({ d[i].state_name : i \in 1..Len(d) })
  IN [ k \in 1..Len(keys) |->
         [ state_name |-> keys[k],
           predicted_rainfall |->
             SumRain(SelectSeq(d, LAMBDA r : r.state_name = keys[k])) ] ]

\* line 65
YearTotals(d, year) == GroupByStateSum(SelectSeq(d, LAMBDA r : r.year = year))

Names(t) == { t[i].state_name : i \in 1..Len(t) }

\* a faulty proxy: Ladakh's own total is replaced by Jammu and Kashmir's
ProxyAlways(t) ==
  IF JK \in Names(t)
  THEN LET jk_value == SelectSeq(t, LAMBDA r : r.state_name = JK)[1].predicted_rainfall
       IN SelectSeq(t, LAMBDA r : r.state_name # Ladakh)
            \o << [ state_name |-> Ladakh, predicted_rainfall |-> jk_value ] >>
  ELSE t

\* a faulty proxy: a Ladakh value of the previous run's map table is reused
ProxyCached(t) ==
  LET old == SelectSeq(df_year, LAMBDA r : r.state_name = Ladakh
                                           /\ r.predicted_rainfall # None)
  IN IF Ladakh \notin Names(t) /\ old # << >>
     THEN Append(t, [ state_name |-> Ladakh,
                      predicted_rainfall |-> old[1].predicted_rainfall[1] ])
     ELSE IF JK \in Names(t) /\ Ladakh \notin Names(t)
     THEN Append(t, [ state_name |-> Ladakh,
                      predicted_rainfall |->
                        SelectSeq(t, LAMBDA r : r.state_name = JK)[1].predicted_rainfall ])
     ELSE t

\* lines 68-70: copy J&K rainfall to Ladakh for this year
LadakhProxy(t) ==
  IF JK \in Names(t) /\ Ladakh \notin Names(t)
  THEN LET jk_value == SelectSeq(t, LAMBDA r : r.state_name = JK)[1].predicted_rainfall
       IN Append(t, [ state_name |-> Ladakh, predicted_rainfall |-> jk_value ])
  ELSE t

RECURSIVE LeftMerge(_, _)
\* a faulty merge: a boundary region without a total gets 0
LeftMergeFillsZero(left, t) ==
  IF left = << >> THEN << >>
  ELSE LET hits == SelectSeq(t, LAMBDA r : r.state_name = Head(left))
           out == IF hits = << >>
                  THEN << [ state_name |-> Head(left), predicted_rainfall |-> Some(0) ] >>
                  ELSE [ j \in 1..Len(hits) |->
                           [ state_name |-> Head(left),
                             predicted_rainfall |-> Some(hits[j].predicted_rainfall) ] ]
       IN out \o LeftMerge(Tail(left), t)

\* line 73: all_states_df.merge(df_year, on="state_name", how="left")
LeftMerge(left, t) ==
  IF left = << >> THEN << >>
  ELSE LET hits == SelectSeq(t, LAMBDA r : r.state_name = Head(left))
           out == IF hits = << >>
                  THEN << [ state_name |-> Head(left), predicted_rainfall |-> None ] >>
                  ELSE [ j \in 1..Len(hits) |->
                           [ state_name |-> Head(left),
                             predicted_rainfall |-> Some(hits[j].predicted_rainfall) ] ]
       IN out \o LeftMerge(Tail(left), t)

\* lines 61-73
MapTable(d, g, year) == LeftMerge(geo_states(g), LadakhProxy(YearTotals(d, year)))

\* ------------------------------------------------------------------ monthly
\* the month columns of monthly_pivot (line 78): the month names found in df
PivotColumns(d) == { d[i].month_name : i \in 1..Len(d) }

\* line 80: monthly_pivot[["state_name","year"] + month_order] raises KeyError
\* unless every label is a column
SelectColumnsOk(d) == Range(month_order) \subseteq PivotColumns(d)

\* line 82: the row of monthly_pivot for (state, year), as a 0- or 1-row frame
MonthlyRow(d, state, year) ==
  LET mine == SelectSeq(d, LAMBDA r : r.state_name = state /\ r.year = year)
  IN IF mine = << >> THEN << >>
     ELSE << [ state_name |-> state,
               year |-> year,
               months |->
                 [ m \in 1..Len(month_order) |->
                     LET cell == SelectSeq(mine, LAMBDA r : r.month_name = month_order[m])
                     IN IF cell = << >> THEN None ELSE Some(SumRain(cell)) ] ] >>

\* lines 84-85: row[month_order].T.reset_index() with columns Month, Rainfall
MonthlyData(r) ==
  [ m \in 1..Len(month_order) |->
      [ Month |-> month_order[m], Rainfall |-> r[1].months[m] ] ]

\* ------------------------------------------------------------------ year over year
\* a faulty total: Ladakh without rows takes Jammu and Kashmir's rows
TotalWithProxy(d, state, year) ==
  LET own == SelectSeq(d, LAMBDA r : r.state_name = state /\ r.year = year)
  IN IF state = Ladakh /\ own = << >>
     THEN SumRain(SelectSeq(d, LAMBDA r : r.state_name = JK /\ r.year = year))
     ELSE SumRain(own)

\* df[(state_name == state) & (year == year)]["predicted_rainfall"].sum()
Total(d, state, year) ==
  SumRain(SelectSeq(d, LAMBDA r : r.state_name = state /\ r.year = year))

\* diff / prev_value * 100, kept exact as a fraction
Percent(diff, prev_value) == [ num |-> diff * 100, den |-> prev_value ]

\* a faulty comparison: the division is not guarded
YearOverYearNoGuard(d, state, year) ==
  LET prev_year == year - 1
      curr_value == Total(d, state, year)
      prev_value == Total(d, state, prev_year)
  IN [ prev_year |-> prev_year, curr_value |-> curr_value, prev_value |-> prev_value,
       diff |-> Some(curr_value - prev_value),
       pct_change |-> Some(Percent(curr_value - prev_value, prev_value)),
       colC |-> "metric" ]

\* lines 110-129
YearOverYear(d, state, year) ==
  LET prev_year == year - 1
      curr_value == Total(d, state, year)
      prev_value == Total(d, state, prev_year)
      has_prev == prev_value > 0
      diff == IF has_prev THEN Some(curr_value - prev_value) ELSE None
      pct_change == IF has_prev THEN Some(Percent(curr_value - prev_value, prev_value))
                    ELSE None
  IN [ prev_year |-> prev_year, curr_value |-> curr_value, prev_value |-> prev_value,
       diff |-> diff, pct_change |-> pct_change,
       colC |-> IF pct_change # None THEN "metric" ELSE "No previous year data" ]

\* line 156
YearlyState(d, state) ==
  LET mine == SelectSeq(d, LAMBDA r : r.state_name = state)
      years == SortedYears({ mine[i].year : i \in 1..Len(mine) })
  IN [ k \in 1..Len(years) |->
         [ year |-> years[k],
           predicted_rainfall |-> SumRain(SelectSeq(mine, LAMBDA r : r.year = years[k])) ] ]

\* ------------------------------------------------------------------ inputs
SeqsUpTo(S, n) == UNION { [ 1..k -> S ] : k \in 0..n }

Date(y, m, d) == [ year |-> y, month |-> m, day |-> d ]

CsvRow(s, d, v) == [ state_name |-> s, date |-> d, predicted_rainfall |-> v ]

\* rows for the loader alone
LoadRowPool ==
  { CsvRow(s, d, v) : s \in { JKRaw, merged_ut, Dadra, Kerala },
                      d \in { Date(2025, 1, 15), Date(2025, 2, 1) },
                      v \in { 10, 20 } }

\* features for the boundary loader alone
FeaturePool ==
  { [ st_nm |-> s, geometry |-> g ] : s \in { JK, Ladakh, Andaman, Lakshadweep },
                                      g \in { "polygonA", "polygonB" } }

\* a forecast with a row in every month of 2024 for Jammu And Kashmir
YearBlock == [ m \in 1..12 |-> CsvRow(JKRaw, Date(2024, m, 15), 5) ]

ExtraRowPool ==
  { CsvRow(s, Date(y, 1, 15), v) : s \in { JKRaw, Ladakh, merged_ut },
                                   y \in { 2024, 2025 },
                                   v \in { 0, 7 } }

\* forecast tables of the dashboard: with or without the year block, then free rows
DashCsv ==
  { b \o x : b \in { << >>, YearBlock }, x \in SeqsUpTo(ExtraRowPool, MaxExtraRows) }
    \ { << >> }

Feature(s) == [ st_nm |-> s, geometry |-> << "polygon", s >> ]

\* boundary files of the dashboard
DashGeo ==
  { << Feature(JK), Feature(Ladakh), Feature(Dadra), Feature(Lakshadweep) >>,
    << Feature(Kerala), Feature(JK), Feature(Andaman) >>,
    << Feature(Ladakh) >> }

\* ------------------------------------------------------------------ the script
Unset ==
  /\ pc = "start"
  /\ df = << >>
  /\ geojson = << >>
  /\ selected_year = 0
  /\ selected_state = ""
  /\ df_year = << >>
  /\ row = << >>
  /\ data = << >>
  /\ yoy = None
  /\ yearly_state = << >>
  /\ err = "none"
  /\ memo = None

Init ==
  /\ csv \in DashCsv
  /\ geofile \in DashGeo
  /\ Unset

\* what one run leaves for the page, with the selection and frames it was made for
Outputs ==
  [ selected_year |-> selected_year, selected_state |-> selected_state,
    df |-> df, geojson |-> geojson,
    df_year |-> df_year, row |-> row, data |-> data, yoy |-> yoy,
    yearly_state |-> yearly_state, err |-> err ]

\* lines 57-168 for the frames d, g and the selection (year, state)
Body(d, g, year, state) ==
  /\ selected_year' = year
  /\ selected_state' = state
  /\ df_year' = MapTable(d, g, year)
  /\ IF SelectColumnsOk(d)
     THEN /\ row' = MonthlyRow(d, state, year)
          /\ data' = IF row' # << >> THEN MonthlyData(row') ELSE << >>
          /\ yoy' = Some(YearOverYear(d, state, year))
          /\ yearly_state' = YearlyState(d, state)
          /\ err' = "none"
     ELSE /\ row' = << >>
          /\ data' = << >>
          /\ yoy' = None
          /\ yearly_state' = << >>
          /\ err' = "KeyError"

\* the first run: both loaders run (lines 41-42), the widgets take their first option
Start ==
  /\ pc = "start"
  /\ df' = load_data(csv)
  /\ geojson' = load_geojson(geofile)
  /\ Body(df', geojson', year_options(df')[1], selectable_states(df')[1])
  /\ pc' = "ran"
  /\ UNCHANGED << csv, geofile, memo >>

\* a rerun after a widget change: the loaders answer from their cache
Rerun(year, state) ==
  /\ pc = "ran"
  /\ year \in Range(year_options(df))
  /\ state \in Range(selectable_states(df))
  /\ Body(df, geojson, year, state)
  /\ UNCHANGED << csv, geofile, pc, df, geojson >>

AllYears == { 2024, 2025 }

SelectionChange ==
  \E year \in AllYears, state \in Range(StateOrder) :
    Rerun(year, state) /\ UNCHANGED memo

Next == Start \/ SelectionChange

Spec == Init /\ [][Next]_vars

\* the same script, with one earlier run kept in memo for comparison
SelectionChangeKeeping ==
  \E year \in AllYears, state \in Range(StateOrder), keep \in BOOLEAN :
    /\ Rerun(year, state)
    /\ memo' = IF keep THEN Some(Outputs) ELSE memo

HistRowPool ==
  { r \in ExtraRowPool :
      /\ r.predicted_rainfall = 7
      /\ r.state_name = merged_ut => r.date.year = 2025 }

InitHist ==
  /\ csv \in { b \o x : b \in { << >>, YearBlock },
                        x \in SeqsUpTo(HistRowPool, MaxExtraRows) } \ { << >> }
  /\ geofile \in { g \in DashGeo : Len(g) > 1 }
  /\ Unset

NextHist == Start \/ SelectionChangeKeeping

SpecHist == InitHist /\ [][NextHist]_vars

\* load_data() called on a forecast table
InitLoad ==
  /\ csv \in SeqsUpTo(LoadRowPool, MaxCsvRows)
  /\ geofile = << >>
  /\ Unset

CallLoadData ==
  /\ pc = "start"
  /\ df' = load_data(csv)
  /\ pc' = "loaded"
  /\ UNCHANGED << csv, geofile, geojson, selected_year, selected_state, df_year,
                  row, data, yoy, yearly_state, err, memo >>

SpecLoad == InitLoad /\ [][CallLoadData]_vars

\* load_geojson() called on a boundary file
InitGeo ==
  /\ csv = << >>
  /\ geofile \in SeqsUpTo(FeaturePool, MaxFeatures)
  /\ Unset

CallLoadGeojson ==
  /\ pc = "start"
  /\ geojson' = load_geojson(geofile)
  /\ pc' = "loaded"
  /\ UNCHANGED << csv, geofile, df, selected_year, selected_state, df_year,
                  row, data, yoy, yearly_state, err, memo >>

SpecGeo == InitGeo /\ [][CallLoadGeojson]_vars

\* ------------------------------------------------------------------ claims
RECURSIVE SumAt(_, _)
\* the rainfall of the rows of d at the indices I, added up
SumAt(d, I) ==
  IF I = {} THEN 0
  ELSE LET i == CHOOSE j \in I : TRUE
       IN d[i].predicted_rainfall + SumAt(d, I \ {i})

At(d, s) == { i \in 1..Len(d) : d[i].state_name = s }
AtYear(d, s, y) == { i \in At(d, s) : d[i].year = y }
AtDate(d, s, dt) == { i \in At(d, s) : d[i].date = dt }
AtDateRain(d, s, dt, v) == { i \in AtDate(d, s, dt) : d[i].predicted_rainfall = v }

Dates(d) == { d[i].date : i \in 1..Len(d) }
Rains(d) == { d[i].predicted_rainfall : i \in 1..Len(d) }

\* C1: load_data's split is exhaustive and value-preserving: every row of the
\* merged UT gives exactly one "Dadra and Nagar Haveli" row and one "Daman and Diu"
\* row with its date and rainfall (counted per date and value, beside the rows
\* the table already had under those names), nothing else is added, and no row of
\* the result carries the merged UT's name.
C1_SplitExhaustive ==
  pc = "loaded" =>
    /\ At(df, "The Dadra And Nagar Haveli And Daman And Diu") = {}
    /\ Len(df) = Len(csv) + Cardinality(At(csv, merged_ut))
    /\ \A s \in { "Dadra and Nagar Haveli", "Daman and Diu" } :
         \A dt \in Dates(csv), v \in Rains(csv) :
           Cardinality(AtDateRain(df, s, dt, v))
             = Cardinality(AtDateRain(csv, merged_ut, dt, v))
                 + Cardinality(AtDateRain(csv, s, dt, v))

C1_Witness ==
  /\ pc = "loaded"
  /\ Cardinality(At(csv, merged_ut)) >= 2
  /\ At(csv, JKRaw) # {}
  /\ Cardinality(At(df, Dadra)) >= 2
  /\ Cardinality(At(df, Daman)) >= 2

\* C2 as stated: for every date, the rainfall of "Dadra and Nagar Haveli" plus
\* "Daman and Diu" after load_data equals the rainfall of the merged UT before it.
C2_CombinedEqualsMerged ==
  pc = "loaded" =>
    \A dt \in Dates(csv) :
      SumAt(df, AtDate(df, Dadra, dt)) + SumAt(df, AtDate(df, Daman, dt))
        = SumAt(csv, AtDate(csv, merged_ut, dt))

\* C2 amended: each split region receives the merged UT's full value, so for every
\* date the two regions together hold twice the merged UT's rainfall, plus what
\* the table already had under the two names.
C2_CombinedIsTwiceMerged ==
  pc = "loaded" =>
    \A dt \in Dates(csv) :
      SumAt(df, AtDate(df, Dadra, dt)) + SumAt(df, AtDate(df, Daman, dt))
        = 2 * SumAt(csv, AtDate(csv, merged_ut, dt))
            + SumAt(csv, AtDate(csv, Dadra, dt)) + SumAt(csv, AtDate(csv, Daman, dt))

C2_Witness ==
  /\ pc = "loaded"
  /\ \E dt \in Dates(csv) :
       /\ SumAt(csv, AtDate(csv, merged_ut, dt)) = 30
       /\ SumAt(df, AtDate(df, Dadra, dt)) + SumAt(df, AtDate(df, Daman, dt)) = 60

\* C8: load_geojson returns exactly the features not named "Andaman and Nicobar
\* Islands" or "Lakshadweep": none of the result has such a name, and the k-th
\* feature of the result is the k-th other feature of the file, geometry included.
C8_BoundaryFilter ==
  pc = "loaded" =>
    LET kept == { i \in 1..Len(geofile) :
                    geofile[i].st_nm \notin { "Andaman and Nicobar Islands",
                                              "Lakshadweep" } }
        nth(k) == CHOOSE i \in kept : Cardinality({ j \in kept : j <= i }) = k
    IN /\ Len(geojson) = Cardinality(kept)
       /\ \A k \in 1..Len(geojson) :
            /\ geojson[k].st_nm \notin { "Andaman and Nicobar Islands", "Lakshadweep" }
            /\ geojson[k] = geofile[nth(k)]

C8_Witness ==
  /\ pc = "loaded"
  /\ Len(geofile) = 3
  /\ geofile[1].st_nm = Ladakh
  /\ geofile[2].st_nm = Lakshadweep
  /\ geofile[3].st_nm = JK
  /\ geofile[1].geometry # geofile[3].geometry
  /\ geojson = << geofile[1], geofile[3] >>

\* ------------------------------------------------------------------ map claims
\* the names of the boundary file after the exclusion
BoundaryNames ==
  { geofile[i].st_nm : i \in 1..Len(geofile) }
    \ { "Andaman and Nicobar Islands", "Lakshadweep" }

MapKeys == { df_year[i].state_name : i \in 1..Len(df_year) }

MapRows(s) == { i \in 1..Len(df_year) : df_year[i].state_name = s }

\* C3 as stated (on the runs that reach the map): the keys of the yearly map table are exactly the boundary names
\* left after the exclusion, and every boundary region without rainfall rows in
\* the selected year has a null total.
C3_KeysAndNullTotals ==
  (pc = "ran" /\ err = "none") =>
    /\ MapKeys = BoundaryNames
    /\ \A i \in 1..Len(df_year) :
         AtYear(df, df_year[i].state_name, selected_year) = {}
           => df_year[i].predicted_rainfall = None

\* C3 amended: the keys of the yearly map table are exactly the boundary names
\* left after the exclusion (rainfall-only regions and a proxied Ladakh without a
\* boundary do not appear), and every boundary region without rainfall rows in the
\* selected year has a null total, not zero, except Ladakh in a year in which
\* Jammu and Kashmir has rows: it then carries the Jammu and Kashmir total.
C3_KeysAndNullTotalsButProxy ==
  pc = "ran" =>
    /\ MapKeys = BoundaryNames
    /\ \A i \in 1..Len(df_year) :
         AtYear(df, df_year[i].state_name, selected_year) = {}
           => IF df_year[i].state_name = "Ladakh"
                 /\ AtYear(df, "Jammu and Kashmir", selected_year) # {}
              THEN df_year[i].predicted_rainfall
                     = Some(SumAt(df, AtYear(df, "Jammu and Kashmir", selected_year)))
              ELSE df_year[i].predicted_rainfall = None

\* a run whose table has a region with rainfall but no boundary, a boundary
\* region without rainfall (null), and Jammu and Kashmir rows without a Ladakh boundary
C3_Witness ==
  /\ pc = "ran"
  /\ AtYear(df, Dadra, selected_year) # {}
  /\ Dadra \notin MapKeys
  /\ AtYear(df, JK, selected_year) # {}
  /\ AtYear(df, Ladakh, selected_year) = {}
  /\ Ladakh \notin MapKeys
  /\ \E i \in MapRows(Kerala) : df_year[i].predicted_rainfall = None
  /\ \E i \in MapRows(JK) : df_year[i].predicted_rainfall # None

\* C4 as stated (on the runs that reach the map): in the selected year, Jammu and Kashmir rows and no Ladakh rows
\* put Ladakh into the yearly totals with the Jammu and Kashmir total of that
\* year; without Jammu and Kashmir rows (and without its own) Ladakh is absent or
\* null; with its own rows Ladakh's total is their sum.
C4_LadakhProxy ==
  (pc = "ran" /\ err = "none") =>
    LET jk == AtYear(df, "Jammu and Kashmir", selected_year)
        la == AtYear(df, "Ladakh", selected_year)
    IN /\ (jk # {} /\ la = {}) =>
            /\ MapRows("Ladakh") # {}
            /\ \A i \in MapRows("Ladakh") :
                 df_year[i].predicted_rainfall = Some(SumAt(df, jk))
       /\ (jk = {} /\ la = {}) =>
            \A i \in MapRows("Ladakh") : df_year[i].predicted_rainfall = None
       /\ la # {} =>
            \A i \in MapRows("Ladakh") :
              df_year[i].predicted_rainfall = Some(SumAt(df, la))

\* C4 amended: the same, for a Ladakh that is a boundary region; a Ladakh without
\* a boundary is absent from the yearly map table whatever the records hold.
C4_LadakhProxyOnBoundary ==
  pc = "ran" =>
    LET jk == AtYear(df, "Jammu and Kashmir", selected_year)
        la == AtYear(df, "Ladakh", selected_year)
    IN IF "Ladakh" \in BoundaryNames
       THEN /\ MapRows("Ladakh") # {}
            /\ \A i \in MapRows("Ladakh") :
                 df_year[i].predicted_rainfall =
                   IF la # {} THEN Some(SumAt(df, la))
                   ELSE IF jk # {} THEN Some(SumAt(df, jk))
                   ELSE None
       ELSE MapRows("Ladakh") = {}

\* the map shows a proxied Ladakh in the selected year, and Ladakh has rows of
\* its own in another year
C4_Witness ==
  /\ pc = "ran"
  /\ AtYear(df, Ladakh, selected_year) = {}
  /\ At(df, Ladakh) # {}
  /\ SumAt(df, AtYear(df, JK, selected_year)) > 0
  /\ \E i \in MapRows(Ladakh) :
       df_year[i].predicted_rainfall
         = Some(SumAt(df, AtYear(df, JK, selected_year)))

\* ------------------------------------------------------------------ monthly claim
\* C5: the monthly series never fails: a run gives 12 entries Jan..Dec when the
\* selected (region, year) has a row, and the empty "no monthly data" result
\* otherwise, also when some calendar month has no row anywhere in the table.
C5_MonthlyNeverFails ==
  pc = "ran" =>
    /\ err = "none"
    /\ IF AtYear(df, selected_state, selected_year) # {}
       THEN /\ Len(row) = 1
            /\ Len(data) = 12
            /\ \A m \in 1..12 :
                 data[m].Month
                   = << "Jan", "Feb", "Mar", "Apr", "May", "Jun",
                        "Jul", "Aug", "Sep", "Oct", "Nov", "Dec" >>[m]
       ELSE row = << >> /\ data = << >>

\* ------------------------------------------------------------------ year over year
\* C6: whenever a run computes the comparison, current and previous totals are the
\* sums for (region, year) and (region, year - 1), 0 without rows; a positive
\* previous total gives diff = current - previous and the percentage
\* diff * 100 / previous, with a divisor that is not zero; a previous total of 0
\* gives neither and "No previous year data" is shown.
C6_YearOverYear ==
  (pc = "ran" /\ yoy # None) =>
    LET y == yoy[1]
        curr == SumAt(df, AtYear(df, selected_state, selected_year))
        prev == SumAt(df, AtYear(df, selected_state, selected_year - 1))
    IN /\ y.curr_value = curr
       /\ y.prev_value = prev
       /\ y.pct_change # None => y.pct_change[1].den # 0
       /\ prev > 0 =>
            /\ y.diff = << curr - prev >>
            /\ y.pct_change = << [ num |-> (curr - prev) * 100, den |-> prev ] >>
            /\ y.colC = "metric"
       /\ prev = 0 =>
            /\ y.diff = << >>
            /\ y.pct_change = << >>
            /\ y.colC = "No previous year data"

\* the previous year has rows for the region, and they add up to 0
C6_Witness ==
  /\ pc = "ran"
  /\ yoy # None
  /\ AtYear(df, selected_state, selected_year - 1) # {}
  /\ yoy[1].prev_value = 0
  /\ yoy[1].curr_value > 0
  /\ yoy[1].pct_change = None

\* ------------------------------------------------------------------ selection claim
ObservedYears == { df[i].year : i \in 1..Len(df) }
ObservedStates == { df[i].state_name : i \in 1..Len(df) }

\* C7 as stated: a run whose comparison asks for a year or a region that no loaded
\* record has (the selected ones, or the previous year) ends in a SelectionError.
C7_SelectionError ==
  ( /\ pc = "ran"
    /\ yoy # None
    /\ \/ selected_year \notin ObservedYears
       \/ selected_state \notin ObservedStates
       \/ selected_year - 1 \notin ObservedYears )
    => err = "SelectionError"

\* C7 amended: the selected year and region are always among those of the loaded
\* records, no run ends in a SelectionError, and a comparison whose previous year
\* no record has takes the previous total as 0 and shows "No previous year data".
C7_SelectionsObserved ==
  pc = "ran" =>
    /\ selected_year \in ObservedYears
    /\ selected_state \in ObservedStates
    /\ err # "SelectionError"
    /\ (yoy # None /\ selected_year - 1 \notin ObservedYears) =>
         /\ yoy[1].prev_value = 0
         /\ yoy[1].pct_change = None
         /\ yoy[1].colC = "No previous year data"

\* a comparison was made against a year that no record has
C7_Witness ==
  /\ pc = "ran"
  /\ err = "none"
  /\ yoy # None
  /\ yoy[1].prev_year \notin ObservedYears
  /\ yoy[1].curr_value > 0

\* ------------------------------------------------------------------ purity claim
\* C9: the loaded frames are those of the remembered run, and a run for the
\* remembered run's selection leaves exactly the remembered outputs, whatever was
\* selected in between.
C9_OutputsDependOnSelectionOnly ==
  memo # None =>
    /\ memo[1].df = df
    /\ memo[1].geojson = geojson
    /\ (memo[1].selected_year = selected_year
          /\ memo[1].selected_state = selected_state) => memo[1] = Outputs

\* the remembered run showed a proxied Ladakh; the current run, for another
\* year, does not
C9_Witness ==
  /\ memo # None
  /\ df_year # << >>
  /\ memo[1].selected_year # selected_year
  /\ \E i \in 1..Len(memo[1].df_year) :
       /\ memo[1].df_year[i].state_name = Ladakh
       /\ memo[1].df_year[i].predicted_rainfall # None
       /\ AtYear(df, Ladakh, memo[1].selected_year) = {}
  /\ \E i \in MapRows(Ladakh) : df_year[i].predicted_rainfall = None

\* ------------------------------------------------------------------ proxy scope
\* C10: Ladakh is selected only when the records have Ladakh rows, and is offered
\* only then; when the map of a run shows a proxied Ladakh (a total without Ladakh
\* rows in that year) and Ladakh is the selected region, the monthly result is the
\* empty one, the comparison's current total is 0 and the multi-year table has no
\* entry for the year.
C10_ProxyOnlyOnMap ==
  pc = "ran" =>
    /\ (selected_state = "Ladakh" \/ "Ladakh" \in Range(selectable_states(df)))
         => At(df, "Ladakh") # {}
    /\ ( /\ err = "none"
         /\ selected_state = "Ladakh"
         /\ AtYear(df, "Ladakh", selected_year) = {}
         /\ \E i \in MapRows("Ladakh") : df_year[i].predicted_rainfall # None )
       => /\ row = << >>
          /\ data = << >>
          /\ yoy[1].curr_value = 0
          /\ \A k \in 1..Len(yearly_state) : yearly_state[k].year # selected_year

C10_Witness ==
  /\ pc = "ran"
  /\ err = "none"
  /\ selected_state = Ladakh
  /\ AtYear(df, Ladakh, selected_year) = {}
  /\ \E i \in MapRows(Ladakh) : df_year[i].predicted_rainfall = << 60 >>
  /\ yearly_state # << >>

====
